---- MODULE Spec2Model ----
(***************************************************************************)
(* A model of md2conf's external reference resolver                        *)
(* (md2conf/reference.py, duplicated in md2conf/external.py) and of its    *)
(* Mermaid rendering pipeline (md2conf/mermaid.py).                        *)
(*                                                                         *)
(* Spec        one caller using one ExternalReferenceResolver while the    *)
(*             file system changes under it.                               *)
(* Spec1       one caller, over the files of Spec2.                        *)
(* Spec2       two workers sharing one resolver, with or without a lock    *)
(*             around resolve().                                           *)
(* SpecFM      the front-matter functions applied to bounded texts.        *)
(* SpecRender  one render() call, its converter process and its temporary  *)
(*             file.                                                       *)
(* SpecRender2 two render() calls at once.                                 *)
(* SpecRenderFair  one render() call on a thread that keeps running.       *)
(***************************************************************************)
EXTENDS Integers, Sequences, FiniteSets, TLC

VARIABLES
    fs,         \* the file system: what each path holds right now
    cache,      \* ExternalReferenceResolver._cache, a dict keyed by path
    pc,         \* per worker: where in resolve() it stands
    cur,        \* per worker: the call in progress, or the last one completed
    returned,   \* per path: the values resolve(path) has returned so far
    ended,      \* the paths on which a resolve() call has returned or raised
    reads,      \* per path: how many times Scanner().read(path) was called
    calls,      \* resolve() calls started so far
    fsChanges,  \* file-system changes made so far
    mutex,      \* the lock the callers put around resolve(), if they use one
    fmText,     \* the text handed to a front-matter function
    fmStage,    \* which front-matter function was applied to fmText
    fmResult,   \* what it returned, or that it raised
    environ,    \* os.environ and os.name, as far as get_mmdc looks
    tmp,        \* the system temporary directory: each file name's state
    rpc,        \* per renderer: where in render() it stands
    rcall,      \* per renderer: the render() call in progress or completed
    proc        \* per renderer: the converter process it launched

resolverVars == <<fs, cache, pc, cur, returned, ended, reads, calls, fsChanges, mutex>>

fmVars == <<fmText, fmStage, fmResult>>

renderVars == <<environ, tmp, rpc, rcall, proc>>

vars == <<fs, cache, pc, cur, returned, ended, reads, calls, fsChanges, mutex,
          fmText, fmStage, fmResult, environ, tmp, rpc, rcall, proc>>

----------------------------------------------------------------------------
(* Bounds *)

MaxCalls == 2
MaxFsChanges == 1
MaxLen == 10

----------------------------------------------------------------------------
(* Values *)

\* Optional[str]
None == [some |-> FALSE, v |-> ""]
Some(s) == [some |-> TRUE, v |-> s]

\* Python truthiness of an Optional[str]: None and "" are both falsy
Truthy(o) == o.some /\ o.v # ""

\* Mutant: the default applies to None only (`a if a is not None else b`)
OrDefaultNoneOnly(o, d) == IF o.some THEN o.v ELSE d

\* `a or b` on an Optional[str] a and a str b
OrDefault(o, d) == IF Truthy(o) THEN o.v ELSE d

Paths == {"/a/external.md", "/b/cached.md"}

\* Path.stem: the final path component without its suffix
Stem(p) == IF p = "/a/external.md" THEN "external" ELSE "cached"

\* resolve() returning None
Absent == [some |-> FALSE, page_id |-> "", space_key |-> "", title |-> "",
           synchronized |-> FALSE]

\* ConfluencePageMetadata(page_id, space_key, title, synchronized)
ConfluencePageMetadata(page_id, space_key, title, synchronized) ==
    [some |-> TRUE, page_id |-> page_id, space_key |-> space_key,
     title |-> title, synchronized |-> synchronized]

\* What Scanner().read(path) yields on a file: it raises, or it returns a
\* document whose properties carry optional page_id, space_key and title.
PageIds == {None, Some(""), Some("123456")}
SpaceKeys == {None, Some(""), Some("TEST")}
Titles == {None, Some(""), Some("External Page")}

NoDocument == [raises |-> TRUE, page_id |-> None, space_key |-> None, title |-> None]

\* Every page_id with every way a space key and a title can be given or not:
\* both missing, both empty, both given, and one of each given
Documents ==
    {d \in [raises : {FALSE}, page_id : PageIds, space_key : SpaceKeys, title : Titles] :
        \/ d.space_key = d.title
        \/ Truthy(d.space_key) /\ Truthy(d.title)
        \/ Truthy(d.space_key) /\ d.title = Some("")
        \/ d.space_key = None /\ Truthy(d.title)}
    \cup {NoDocument}

\* What a path can hold: nothing, a file, or an entry whose stat() fails
\* with an error other than "not found" (EACCES on a parent directory).
FileStates ==
    {[kind |-> "missing", doc |-> NoDocument], [kind |-> "denied", doc |-> NoDocument]}
    \cup [kind : {"file"}, doc : Documents]

Workers == {1, 2}
Caller == 1

\* The callers' lock around resolve(): whether they use one, and the worker
\* holding it (0: nobody)
NoMutex == [used |-> FALSE, holder |-> 0]
FreeMutex == [used |-> TRUE, holder |-> 0]

IdleCall == [path |-> "/a/external.md", hit |-> FALSE, afterReturn |-> FALSE,
             afterCall |-> FALSE,
             checked |-> FALSE, read |-> FALSE, missingAll |-> FALSE,
             doc |-> NoDocument, outcome |-> "none", value |-> Absent]

----------------------------------------------------------------------------
(* Python values as yaml.safe_load builds them *)

NoneV == [t |-> "none", n |-> 0, s |-> ""]
IntV(n) == [t |-> "int", n |-> n, s |-> ""]
StrV(s) == [t |-> "str", n |-> 0, s |-> s]
BoolV(b) == [t |-> "bool", n |-> IF b THEN 1 ELSE 0, s |-> ""]
\* a float, held in tenths
FloatV(tenths) == [t |-> "float", n |-> tenths, s |-> ""]
\* an int of more decimal digits than str() converts (sys.int_max_str_digits),
\* which YAML's hexadecimal notation builds without a limit
BigIntV == [t |-> "bigint", n |-> 1, s |-> ""]

\* bool(v) of a scalar
PyTruthy(v) ==
    CASE v.t = "none" -> FALSE
      [] v.t = "str" -> v.s # ""
      [] OTHER -> v.n # 0

\* The values met under the key `scale`
ScaleValues ==
    {NoneV, IntV(-1), IntV(0), IntV(1), IntV(3), FloatV(0), FloatV(15),
     StrV(""), StrV("big"), BoolV(FALSE), BoolV(TRUE), BigIntV}

\* The values met under the key `config`: t is its type, n the int or the
\* number of entries of a list or dict, scale what its key `scale` holds
CfgNone == [t |-> "none", n |-> 0, s |-> "", scale |-> NoneV]
CfgDict(n, scale) == [t |-> "dict", n |-> n, s |-> "", scale |-> scale]

ConfigValues ==
    {CfgNone,
     [t |-> "int", n |-> 0, s |-> "", scale |-> NoneV],
     [t |-> "str", n |-> 0, s |-> "", scale |-> NoneV],
     [t |-> "str", n |-> 0, s |-> "dark", scale |-> NoneV],
     [t |-> "list", n |-> 1, s |-> "", scale |-> NoneV],
     CfgDict(0, NoneV), CfgDict(1, NoneV)}
    \cup {CfgDict(1, v) : v \in ScaleValues \ {NoneV}}

\* bool(config)
CfgTruthy(c) ==
    CASE c.t = "none" -> FALSE
      [] c.t = "str" -> c.s # ""
      [] OTHER -> c.n # 0

TitleValues == {NoneV, StrV("Tiny flow diagram")}

\* What yaml.safe_load(block) does: it raises, or returns null, a scalar, a
\* list, or a mapping (of which the keys title and config are looked at)
YamlError == [kind |-> "error", title |-> NoneV, config |-> CfgNone]
YamlNull == [kind |-> "null", title |-> NoneV, config |-> CfgNone]
YamlScalar == [kind |-> "scalar", title |-> NoneV, config |-> CfgNone]
YamlList == [kind |-> "list", title |-> NoneV, config |-> CfgNone]
YamlDicts == [kind : {"dict"}, title : TitleValues, config : ConfigValues]

----------------------------------------------------------------------------
(* Front matter *)

\* A text is a sequence of characters; "k" stands for any character other
\* than a hyphen and a line break
Alphabet == {"-", "\n", "k"}

\* "---\nkey: value\n---\nbody"
ExampleText ==
    <<"-", "-", "-", "\n", "k", "e", "y", ":", " ", "v", "a", "l", "u", "e", "\n",
      "-", "-", "-", "\n", "b", "o", "d", "y">>

Texts == UNION {[1..n -> Alphabet] : n \in 0..MaxLen} \cup {ExampleText}

Marker == <<"-", "-", "-">>

\* Optional[str] holding a text
NoBlock == [some |-> FALSE, v |-> <<>>]
Block(b) == [some |-> TRUE, v |-> b]

\* `---` at position i of t
MarkerAt(t, i) == i + 2 <= Len(t) /\ SubSeq(t, i, i + 2) = Marker

\* `$` under (?m) at position i: at the end of the text or before a line break
AtLineEnd(t, i) == i = Len(t) + 1 \/ (i <= Len(t) /\ t[i] = "\n")

\* `^` under (?m) at position i: at the start of the text or after a line break
AtLineStart(t, i) == i = 1 \/ (i > 1 /\ t[i - 1] = "\n")

\* Where `^---$` can close a block opened by `\A---$`: after at least one
\* character of group 1
Closers(t) ==
    {j \in 5..Len(t) : AtLineStart(t, j) /\ MarkerAt(t, j) /\ AtLineEnd(t, j + 3)}

\* group 1 is lazy, `(.+?)`: it ends at the first closing marker
FirstCloser(t) == CHOOSE j \in Closers(t) : \A i \in Closers(t) : j <= i

\* Mutant: the pattern also consumes the line break that ends the closing
\* marker line, `^---$\n?`
ExtractFrontmatterBlockWithLineBreak(t) ==
    IF MarkerAt(t, 1) /\ AtLineEnd(t, 4) /\ Closers(t) # {}
    THEN LET j == FirstCloser(t)
             k == IF j + 3 <= Len(t) THEN j + 4 ELSE j + 3
         IN  [block |-> Block(SubSeq(t, 4, j - 1)), text |-> SubSeq(t, k, Len(t))]
    ELSE [block |-> NoBlock, text |-> t]

\* extract_frontmatter_block(text) = extract_value(r"(?ms)\A---$(.+?)^---$", text):
\* one substitution of the first match by "", group 1 being the value
ExtractFrontmatterBlock(t) ==
    IF MarkerAt(t, 1) /\ AtLineEnd(t, 4) /\ Closers(t) # {}
    THEN LET j == FirstCloser(t)
         IN  [block |-> Block(SubSeq(t, 4, j - 1)), text |-> SubSeq(t, j + 3, Len(t))]
    ELSE [block |-> NoBlock, text |-> t]

\* What yaml.safe_load can do with a block: a block of line breaks alone is
\* the null document, a block without "k" holds no mapping
YamlResults(b) ==
    IF \A i \in 1..Len(b) : b[i] = "\n" THEN {YamlNull}
    ELSE IF \A i \in 1..Len(b) : b[i] \in {"\n", "-"}
    THEN {YamlError, YamlNull, YamlScalar, YamlList}
    ELSE {YamlError, YamlNull, YamlScalar, YamlList} \cup YamlDicts

NoProperties == [some |-> FALSE, title |-> NoneV, config |-> CfgNone]

\* extract_frontmatter_properties(text), yaml.safe_load(block) doing y
ExtractFrontmatterProperties(t, y) ==
    LET b == ExtractFrontmatterBlock(t)
    IN  IF b.block.some /\ y.kind = "error"
        THEN [raises |-> TRUE, props |-> NoProperties, text |-> b.text]
        ELSE IF b.block.some /\ y.kind = "dict"
        THEN [raises |-> FALSE,
              props |-> [some |-> TRUE, title |-> y.title, config |-> y.config],
              text |-> b.text]
        ELSE [raises |-> FALSE, props |-> NoProperties, text |-> b.text]

\* MermaidScanner().read(content): {"title": ..., "config": ...}
MermaidScannerRead(t, y) ==
    LET r == ExtractFrontmatterProperties(t, y)
    IN  IF r.raises
        THEN [raises |-> TRUE, title |-> NoneV, config |-> CfgNone]
        ELSE [raises |-> FALSE, title |-> r.props.title, config |-> r.props.config]

FmNoResult ==
    [raises |-> FALSE, block |-> NoBlock, text |-> <<>>, props |-> NoProperties]

\* The outcomes of yaml.safe_load open to a text
YamlOf(t) ==
    LET b == ExtractFrontmatterBlock(t)
    IN  IF b.block.some THEN YamlResults(b.block.v) ELSE {YamlNull}

\* extract_frontmatter_block is applied to fmText
ExtractBlockStep ==
    /\ fmStage = "input"
    /\ LET b == ExtractFrontmatterBlock(fmText)
       IN  fmResult' = [FmNoResult EXCEPT !.block = b.block, !.text = b.text]
    /\ fmStage' = "block"
    /\ UNCHANGED <<fmText, resolverVars, renderVars>>

\* extract_frontmatter_properties is applied to fmText
ExtractPropertiesStep ==
    /\ fmStage = "input"
    /\ \E y \in YamlOf(fmText) :
         LET r == ExtractFrontmatterProperties(fmText, y)
         IN  fmResult' = [FmNoResult EXCEPT !.raises = r.raises, !.props = r.props,
                                            !.text = r.text,
                                            !.block = ExtractFrontmatterBlock(fmText).block]
    /\ fmStage' = "properties"
    /\ UNCHANGED <<fmText, resolverVars, renderVars>>

\* MermaidScanner().read is applied to fmText
MermaidReadStep ==
    /\ fmStage = "input"
    /\ \E y \in YamlOf(fmText) :
         LET r == MermaidScannerRead(fmText, y)
         IN  fmResult' = [FmNoResult EXCEPT !.raises = r.raises,
                                            !.props = [some |-> ~r.raises, title |-> r.title,
                                                       config |-> r.config],
                                            !.block = ExtractFrontmatterBlock(fmText).block]
    /\ fmStage' = "read"
    /\ UNCHANGED <<fmText, resolverVars, renderVars>>

\* No front-matter function is under test
FmIdle ==
    /\ fmText = <<>>
    /\ fmStage = "idle"
    /\ fmResult = FmNoResult

----------------------------------------------------------------------------
(* render *)

\* bytes: text that decodes as UTF-8, or a byte string that does not
Bytes(text) == [valid |-> TRUE, text |-> text]
InvalidUtf8 == [valid |-> FALSE, text |-> ""]
EmptyBytes == Bytes("")
ImageBytes == Bytes("<image>")

RECURSIVE NatStr(_)
\* str(n) of a natural number
NatStr(n) ==
    IF n < 10 THEN <<"0", "1", "2", "3", "4", "5", "6", "7", "8", "9">>[n + 1]
    ELSE NatStr(n \div 10) \o NatStr(n % 10)

\* str(n) of an int
IntStr(n) == IF n < 0 THEN "-" \o NatStr(-n) ELSE NatStr(n)

\* str(scale) raises ValueError on an int beyond the digit limit
StrRaises(v) == v.t = "bigint"

\* str(scale)
PyStr(v) ==
    CASE v.t = "int" -> IntStr(v.n)
      [] v.t = "float" -> IntStr(v.n \div 10) \o "." \o NatStr(v.n % 10)
      [] v.t = "bool" -> IF v.n = 1 THEN "True" ELSE "False"
      [] v.t = "str" -> v.s
      [] OTHER -> "None"

\* _extract_mermaid_scale(content), yaml.safe_load doing y: any exception of
\* the scanner or of a `.get` on something that is no dict gives None
ExtractMermaidScale(t, y) ==
    LET properties == MermaidScannerRead(t, y)
    IN  IF properties.raises THEN NoneV
        ELSE IF ~CfgTruthy(properties.config) THEN NoneV
        ELSE IF properties.config.t # "dict" THEN NoneV
        ELSE properties.config.scale

\* Mutant: the default replaces None only (`scale if scale is not None else 2`)
EffectiveScaleNoneOnly(extracted) == IF extracted # NoneV THEN extracted ELSE IntV(2)

\* `_extract_mermaid_scale(source) or 2`
EffectiveScale(extracted) == IF PyTruthy(extracted) THEN extracted ELSE IntV(2)

\* is_docker()
IsDocker ==
    /\ environ.CHROME_BIN = Some("/usr/bin/chromium-browser")
    /\ environ.PUPPETEER_SKIP_DOWNLOAD = Some("true")

\* Mutant: the host's family is looked at first
GetMmdcWindowsFirst ==
    IF environ.os_name = "nt" THEN "mmdc.cmd"
    ELSE IF IsDocker THEN "/home/md2conf/node_modules/.bin/mmdc"
    ELSE "mmdc"

\* get_mmdc()
GetMmdc ==
    IF IsDocker THEN "/home/md2conf/node_modules/.bin/mmdc"
    ELSE IF environ.os_name = "nt" THEN "mmdc.cmd"
    ELSE "mmdc"

\* The command line render() builds
Cmd(filename, output_format, scale) ==
    <<GetMmdc, "--input", "-", "--output", filename, "--outputFormat", output_format,
      "--backgroundColor", "transparent", "--scale", PyStr(scale)>>
    \o (IF IsDocker THEN <<"-p", "md2conf/puppeteer-config.json">> ELSE <<>>)

Renderers == {1, 2}
Renderer == 1

Formats == {"png", "svg"}

\* The names tempfile can generate, each with the suffix asked for
FileNames == {"/tmp/tmpa.png", "/tmp/tmpb.png", "/tmp/tmpa.svg", "/tmp/tmpb.svg"}
Suffix(f) == IF f \in {"/tmp/tmpa.png", "/tmp/tmpb.png"} THEN "png" ELSE "svg"

\* A name of the temporary directory: whether a file stands under it, what the
\* file holds, and which render call created or last wrote it (0: none)
NoFile == [exists |-> FALSE, data |-> EmptyBytes, by |-> 0]
File(data, by) == [exists |-> TRUE, data |-> data, by |-> by]

\* Diagram sources: without front matter, with an unclosed block, with a block
RenderTexts ==
    {<<"k">>,
     <<"-", "-", "-", "\n", "k">>,
     <<"-", "-", "-", "\n", "k", "\n", "-", "-", "-", "\n", "k">>}

NoError == [type |-> "", code |-> 0, out |-> "", err |-> ""]
Error(type) == [type |-> type, code |-> 0, out |-> "", err |-> ""]

\* RuntimeError(f"failed to convert Mermaid diagram; exit code: {returncode},
\* output:\n{stdout}\n{stderr}")
RuntimeError(code, out, err) ==
    [type |-> "RuntimeError", code |-> code, out |-> out, err |-> err]

\* The converter process of a call: wrote tells whether it wrote its output file
NoProcess == [state |-> "none", returncode |-> 0, stdout |-> EmptyBytes,
              stderr |-> EmptyBytes, wrote |-> FALSE]

\* A render() call: its arguments and locals, how it ended, and what it did:
\* steps lists its operations in the order they happened, readOf and removedOf
\* name the call whose file it read and removed (0: none)
NoRender ==
    [source |-> <<>>, output_format |-> "png", filename |-> "/tmp/tmpa.png",
     yaml |-> YamlNull, scale |-> NoneV, cmd |-> <<>>, outcome |-> "none",
     value |-> EmptyBytes, error |-> NoError,
     steps |-> <<>>, readOf |-> 0, removedOf |-> 0]

\* How the converter can end: exit code, captured output, and whether it wrote
\* the output file or left it as render() created it
ReturnCodes == {0, 1, -9}
Outputs ==
    {<<EmptyBytes, EmptyBytes>>,
     <<Bytes("Generating single mermaid chart"), Bytes("Error: Parse error on line 1")>>,
     <<InvalidUtf8, Bytes("Error: Parse error on line 1")>>,
     <<EmptyBytes, InvalidUtf8>>}
FileEffects == {"none", "written"}

\* Mutant: one fixed name per format, whether or not a file stands under it
\* (`filename = f"tmp_mermaid.{output_format}"`)
FreshNameAny(f) == f \in {"/tmp/tmpa.png", "/tmp/tmpa.svg"}

\* Mutant: the file is gone when the with block ends (`delete=True`)
NamedTemporaryFileDeleted(c) == NoFile

\* What NamedTemporaryFile(suffix=..., delete=False) leaves under the name
\* once the with block has closed it: an empty file
NamedTemporaryFile(c) == File(EmptyBytes, c)

\* tempfile draws names until one is free: the file is created with O_EXCL
FreshName(f) == ~tmp[f].exists

\* render(source, output_format), the temporary file:
\* NamedTemporaryFile(suffix, delete=False) creates an empty file under a name
\* no file has, and the with block closes it
Render(c, source, output_format) ==
    /\ rpc[c] = "idle"
    /\ \E f \in FileNames :
         /\ Suffix(f) = output_format
         /\ FreshName(f)
         /\ tmp' = [tmp EXCEPT ![f] = NamedTemporaryFile(c)]
         /\ rcall' = [rcall EXCEPT ![c] =
                        [NoRender EXCEPT !.source = source,
                                         !.output_format = output_format,
                                         !.filename = f,
                                         !.steps = <<"allocate">>]]
    /\ rpc' = [rpc EXCEPT ![c] = "allocated"]
    /\ UNCHANGED <<environ, proc, resolverVars, fmVars>>

\* render(), the scale and the command line, ahead of the try block: an
\* exception of str(scale) leaves render() here
Prepare(c) ==
    /\ rpc[c] = "allocated"
    /\ \E y \in YamlOf(rcall[c].source) :
         LET scale == EffectiveScale(ExtractMermaidScale(rcall[c].source, y))
         IN  IF StrRaises(scale)
             THEN /\ rcall' = [rcall EXCEPT ![c].yaml = y, ![c].scale = scale,
                                            ![c].outcome = "raised",
                                            ![c].error = Error("ValueError"),
                                            ![c].steps = @ \o <<"raise">>]
                  /\ rpc' = [rpc EXCEPT ![c] = "done"]
             ELSE /\ rcall' = [rcall EXCEPT ![c].yaml = y, ![c].scale = scale,
                                            ![c].cmd = Cmd(rcall[c].filename,
                                                           rcall[c].output_format, scale)]
                  /\ rpc' = [rpc EXCEPT ![c] = "prepared"]
    /\ UNCHANGED <<environ, tmp, proc, resolverVars, fmVars>>

\* subprocess.Popen(cmd, ...): the process starts, or Popen raises OSError
Launch(c) ==
    /\ rpc[c] = "prepared"
    /\ \/ /\ proc' = [proc EXCEPT ![c].state = "running"]
          /\ rpc' = [rpc EXCEPT ![c] = "launched"]
          /\ rcall' = [rcall EXCEPT ![c].steps = @ \o <<"launch">>]
       \/ /\ rcall' = [rcall EXCEPT ![c].outcome = "raised", ![c].error = Error("OSError"),
                                   ![c].steps = @ \o <<"launch", "raise">>]
          /\ rpc' = [rpc EXCEPT ![c] = "finally"]
          /\ UNCHANGED proc
    /\ UNCHANGED <<environ, tmp, resolverVars, fmVars>>

\* proc.communicate(input=...): the source is written to standard input and
\* the input is closed; communicate then waits for the process
WriteInput(c) ==
    /\ rpc[c] = "launched"
    /\ rpc' = [rpc EXCEPT ![c] = "waiting"]
    /\ rcall' = [rcall EXCEPT ![c].steps = @ \o <<"write", "close", "wait">>]
    /\ UNCHANGED <<environ, tmp, proc, resolverVars, fmVars>>

\* The converter ends, when it ends
ConverterExit(c, returncode, output, effect) ==
    /\ proc[c].state = "running"
    /\ proc' = [proc EXCEPT ![c] = [state |-> "exited", returncode |-> returncode,
                                    stdout |-> output[1], stderr |-> output[2],
                                    wrote |-> effect = "written"]]
    /\ tmp' = IF effect = "written"
              THEN [tmp EXCEPT ![rcall[c].filename] = File(ImageBytes, c)]
              ELSE tmp
    /\ UNCHANGED <<environ, rpc, rcall, resolverVars, fmVars>>

\* Mutant: communicate() gives up waiting (`communicate(timeout=...)`)
CommunicateReturnsAnyway(c) == TRUE

\* proc.communicate() returns once the process has exited, and not before
CommunicateReturns(c) == proc[c].state = "exited"

\* Mutant: the exit code is not looked at
FailedNever(returncode) == FALSE

\* `if proc.returncode:`
Failed(returncode) == returncode # 0

\* communicate() returns: the exit code is tested, the output file read
AfterExit(c) ==
    /\ rpc[c] = "waiting"
    /\ CommunicateReturns(c)
    /\ LET f == rcall[c].filename
       IN  rcall' =
             IF Failed(proc[c].returncode)
             THEN IF proc[c].stdout.valid /\ proc[c].stderr.valid
                  THEN [rcall EXCEPT ![c].outcome = "raised",
                                     ![c].error = RuntimeError(proc[c].returncode,
                                                               proc[c].stdout.text,
                                                               proc[c].stderr.text),
                                     ![c].steps = @ \o <<"raise">>]
                  ELSE [rcall EXCEPT ![c].outcome = "raised",
                                     ![c].error = Error("UnicodeDecodeError"),
                                     ![c].steps = @ \o <<"raise">>]
             ELSE IF tmp[f].exists
                  THEN [rcall EXCEPT ![c].outcome = "returned", ![c].value = tmp[f].data,
                                     ![c].steps = @ \o <<"read">>,
                                     ![c].readOf = tmp[f].by]
                  ELSE [rcall EXCEPT ![c].outcome = "raised",
                                     ![c].error = Error("FileNotFoundError"),
                                     ![c].steps = @ \o <<"raise">>]
    /\ rpc' = [rpc EXCEPT ![c] = "finally"]
    /\ UNCHANGED <<environ, tmp, proc, resolverVars, fmVars>>

\* render(), the finally clause
Finally(c) ==
    /\ rpc[c] = "finally"
    /\ LET f == rcall[c].filename
       IN  IF tmp[f].exists
           THEN /\ tmp' = [tmp EXCEPT ![f] = NoFile]
                /\ rcall' = [rcall EXCEPT ![c].steps = @ \o <<"remove">>,
                                          ![c].removedOf = tmp[f].by]
           ELSE UNCHANGED <<tmp, rcall>>
    /\ rpc' = [rpc EXCEPT ![c] = "done"]
    /\ UNCHANGED <<environ, proc, resolverVars, fmVars>>

Environments ==
    [CHROME_BIN : {None, Some("/usr/bin/chromium-browser"), Some("/usr/bin/chromium")},
     PUPPETEER_SKIP_DOWNLOAD : {None, Some("true"), Some("1")},
     os_name : {"posix", "nt"}]

\* No render() is under way
RenderIdle ==
    /\ environ = [CHROME_BIN |-> None, PUPPETEER_SKIP_DOWNLOAD |-> None, os_name |-> "posix"]
    /\ tmp = [f \in FileNames |-> NoFile]
    /\ rpc = [c \in Renderers |-> "idle"]
    /\ rcall = [c \in Renderers |-> NoRender]
    /\ proc = [c \in Renderers |-> NoProcess]

----------------------------------------------------------------------------
(* ExternalReferenceResolver *)

\* Mutant: the cache is never consulted
InCacheNever(c, p) == FALSE

\* `markdown_path in self._cache`
InCache(c, p) == p \in DOMAIN c

\* Mutant: nothing is stored
CachePutNothing(c, p, v) == c

\* Mutant: the cache holds the latest entry only
CachePutOnly(c, p, v) == [q \in {p} |-> v]

\* `self._cache[markdown_path] = value`
CachePut(c, p, v) == [q \in DOMAIN c \cup {p} |-> IF q = p THEN v ELSE c[q]]

\* `markdown_path.exists()`: False when stat() says "not found"; any other
\* OSError of stat() is raised to the caller of exists()
ExistsRaises(p) == fs[p].kind = "denied"
\* Mutant: the existence test is skipped
ExistsAlways(p) == TRUE
Exists(p) == fs[p].kind = "file"

\* `Scanner().read(markdown_path)` on what the path holds now: opening a path
\* that holds no readable file raises, a file yields what its content parses to
ScannerRead(p) == IF fs[p].kind = "file" THEN fs[p].doc ELSE NoDocument

\* The body of the try block once the scanner has answered, and its except
\* clause: the value that is cached and returned
ResolveDocument(doc, p) ==
    IF doc.raises THEN Absent
    ELSE IF ~doc.page_id.some THEN Absent
    ELSE ConfluencePageMetadata(doc.page_id.v,
                                OrDefault(doc.space_key, "UNKNOWN"),
                                OrDefault(doc.title, Stem(p)),
                                FALSE)

\* A call of worker w ends by returning v
Return(w, c, v) ==
    /\ cur' = [cur EXCEPT ![w] = [c EXCEPT !.outcome = "returned", !.value = v]]
    /\ returned' = [returned EXCEPT ![c.path] = @ \cup {v}]
    /\ ended' = ended \cup {c.path}
    /\ pc' = [pc EXCEPT ![w] = "idle"]

\* A call of worker w ends by raising
Raise(w, c) ==
    /\ cur' = [cur EXCEPT ![w] = [c EXCEPT !.outcome = "raised"]]
    /\ ended' = ended \cup {c.path}
    /\ pc' = [pc EXCEPT ![w] = "idle"]
    /\ UNCHANGED returned

\* resolve(markdown_path), the cache lookup
Resolve(w, p) ==
    /\ pc[w] = "idle"
    /\ calls < MaxCalls
    /\ calls' = calls + 1
    /\ LET c == [IdleCall EXCEPT !.path = p,
                                 !.afterReturn = returned[p] # {},
                                 !.afterCall = p \in ended,
                                 !.missingAll = (fs[p].kind = "missing")]
       IN  IF InCache(cache, p)
           THEN Return(w, [c EXCEPT !.hit = TRUE], cache[p])
           ELSE /\ cur' = [cur EXCEPT ![w] = c]
                /\ pc' = [pc EXCEPT ![w] = "exists"]
                /\ UNCHANGED <<returned, ended>>
    /\ UNCHANGED <<fs, cache, reads, fsChanges, mutex, fmVars, renderVars>>

\* resolve(), the existence test
CheckExists(w) ==
    /\ pc[w] = "exists"
    /\ LET p == cur[w].path
           c == [cur[w] EXCEPT !.checked = TRUE]
       IN  IF ExistsRaises(p)
           THEN Raise(w, c) /\ UNCHANGED cache
           ELSE IF ~Exists(p)
           THEN cache' = CachePut(cache, p, Absent) /\ Return(w, c, Absent)
           ELSE /\ cur' = [cur EXCEPT ![w] = c]
                /\ pc' = [pc EXCEPT ![w] = "read"]
                /\ UNCHANGED <<cache, returned, ended>>
    /\ UNCHANGED <<fs, reads, calls, fsChanges, mutex, fmVars, renderVars>>

\* resolve(), the try block and its except clause
Parse(w) ==
    /\ pc[w] = "read"
    /\ LET p == cur[w].path
           doc == ScannerRead(p)
           v == ResolveDocument(doc, p)
       IN  /\ reads' = [reads EXCEPT ![p] = @ + 1]
           /\ cache' = CachePut(cache, p, v)
           /\ Return(w, [cur[w] EXCEPT !.read = TRUE, !.doc = doc], v)
    /\ UNCHANGED <<fs, calls, fsChanges, mutex, fmVars, renderVars>>

\* Another process creates, rewrites, removes or locks away a file
FsChange(p, s) ==
    /\ fsChanges < MaxFsChanges
    /\ s # fs[p]
    /\ fs' = [fs EXCEPT ![p] = s]
    /\ fsChanges' = fsChanges + 1
    /\ cur' = [w \in Workers |->
                 IF pc[w] # "idle" /\ cur[w].path = p
                 THEN [cur[w] EXCEPT !.missingAll = FALSE] ELSE cur[w]]
    /\ UNCHANGED <<cache, pc, returned, ended, reads, calls, mutex, fmVars, renderVars>>

InitResolver ==
    /\ fs \in [Paths -> FileStates]
    /\ cache = <<>>
    /\ pc = [w \in Workers |-> "idle"]
    /\ cur = [w \in Workers |-> IdleCall]
    /\ returned = [p \in Paths |-> {}]
    /\ ended = {}
    /\ reads = [p \in Paths |-> 0]
    /\ calls = 0
    /\ fsChanges = 0
    /\ mutex = NoMutex

\* A fresh resolver, each path holding anything
Init == InitResolver /\ FmIdle /\ RenderIdle

Next ==
    \/ \E p \in Paths : Resolve(Caller, p)
    \/ CheckExists(Caller)
    \/ Parse(Caller)
    \/ \E p \in Paths, s \in FileStates : FsChange(p, s)

Spec == Init /\ [][Next]_vars

\* What the files of two workers' run hold: nothing, an entry whose stat()
\* fails, a file with a page id, a file without
SharedFileStates ==
    {[kind |-> "missing", doc |-> NoDocument],
     [kind |-> "denied", doc |-> NoDocument],
     [kind |-> "file",
      doc |-> [raises |-> FALSE, page_id |-> Some("123456"), space_key |-> Some("TEST"),
               title |-> Some("External Page")]],
     [kind |-> "file",
      doc |-> [raises |-> FALSE, page_id |-> None, space_key |-> None, title |-> None]]}

\* A worker takes the callers' lock before it calls resolve()
Acquire(w) ==
    /\ mutex = FreeMutex
    /\ pc[w] = "idle"
    /\ calls < MaxCalls
    /\ mutex' = [mutex EXCEPT !.holder = w]
    /\ UNCHANGED <<fs, cache, pc, cur, returned, ended, reads, calls, fsChanges,
                   fmVars, renderVars>>

\* and gives it back once resolve() has returned or raised
Release(w) ==
    /\ mutex.used
    /\ mutex.holder = w
    /\ pc[w] = "idle"
    /\ mutex' = FreeMutex
    /\ UNCHANGED <<fs, cache, pc, cur, returned, ended, reads, calls, fsChanges,
                   fmVars, renderVars>>

\* One resolver shared by two workers, which either all put a lock around
\* resolve() or use none
Init2 ==
    /\ fs \in [Paths -> SharedFileStates]
    /\ cache = <<>>
    /\ pc = [w \in Workers |-> "idle"]
    /\ cur = [w \in Workers |-> IdleCall]
    /\ returned = [p \in Paths |-> {}]
    /\ ended = {}
    /\ reads = [p \in Paths |-> 0]
    /\ calls = 0
    /\ fsChanges = 0
    /\ mutex \in {NoMutex, FreeMutex}
    /\ FmIdle
    /\ RenderIdle

Next2 ==
    \/ \E w \in Workers :
          \/ Acquire(w)
          \/ \E p \in Paths : (mutex.used => mutex.holder = w) /\ Resolve(w, p)
          \/ CheckExists(w)
          \/ Parse(w)
          \/ Release(w)
    \/ \E p \in Paths, s \in SharedFileStates : FsChange(p, s)

Spec2 == Init2 /\ [][Next2]_vars

\* The same resolver and files with one caller, which needs no lock
Init1 == Init2 /\ mutex = NoMutex

Next1 ==
    \/ \E p \in Paths : Resolve(Caller, p)
    \/ CheckExists(Caller)
    \/ Parse(Caller)
    \/ \E p \in Paths, s \in SharedFileStates : FsChange(p, s)

Spec1 == Init1 /\ [][Next1]_vars

\* A resolver that is never called
ResolverIdle ==
    /\ fs = [p \in Paths |-> [kind |-> "missing", doc |-> NoDocument]]
    /\ cache = <<>>
    /\ pc = [w \in Workers |-> "idle"]
    /\ cur = [w \in Workers |-> IdleCall]
    /\ returned = [p \in Paths |-> {}]
    /\ ended = {}
    /\ reads = [p \in Paths |-> 0]
    /\ calls = 0
    /\ fsChanges = 0
    /\ mutex = NoMutex

InitFM ==
    /\ fmText \in Texts
    /\ fmStage = "input"
    /\ fmResult = FmNoResult
    /\ ResolverIdle
    /\ RenderIdle

NextFM ==
    \/ ExtractBlockStep
    \/ ExtractPropertiesStep
    \/ MermaidReadStep

SpecFM == InitFM /\ [][NextFM]_vars

InitRender ==
    /\ environ \in Environments
    /\ tmp = [f \in FileNames |-> NoFile]
    /\ rpc = [c \in Renderers |-> "idle"]
    /\ rcall = [c \in Renderers |-> NoRender]
    /\ proc = [c \in Renderers |-> NoProcess]
    /\ ResolverIdle
    /\ FmIdle

NextRender ==
    \/ \E source \in RenderTexts, output_format \in Formats :
          Render(Renderer, source, output_format)
    \/ Prepare(Renderer)
    \/ Launch(Renderer)
    \/ WriteInput(Renderer)
    \/ \E returncode \in ReturnCodes, output \in Outputs, effect \in FileEffects :
          ConverterExit(Renderer, returncode, output, effect)
    \/ AfterExit(Renderer)
    \/ Finally(Renderer)

SpecRender == InitRender /\ [][NextRender]_vars

\* Two render() calls at once, on threads of one process: diagrams without
\* front matter, converters that succeed or fail, with or without output
InitRender2 == RenderIdle /\ ResolverIdle /\ FmIdle

NextRender2 ==
    \E c \in Renderers :
        \/ \E output_format \in Formats : Render(c, <<"k">>, output_format)
        \/ Prepare(c)
        \/ Launch(c)
        \/ WriteInput(c)
        \/ \E returncode \in {0, 1}, effect \in FileEffects :
              ConverterExit(c, returncode, <<EmptyBytes, EmptyBytes>>, effect)
        \/ AfterExit(c)
        \/ Finally(c)

SpecRender2 == InitRender2 /\ [][NextRender2]_vars

\* One render() call whose thread keeps running: each statement of render()
\* that can be executed is executed. Nothing makes the converter exit.
SpecRenderFair ==
    /\ InitRender2
    /\ [][NextRender]_vars
    /\ WF_vars(Prepare(Renderer))
    /\ WF_vars(Launch(Renderer))
    /\ WF_vars(WriteInput(Renderer))
    /\ WF_vars(AfterExit(Renderer))
    /\ WF_vars(Finally(Renderer))

----------------------------------------------------------------------------
(* Claims about the resolver *)

Done(w) == cur[w].outcome # "none"

\* C1: for one resolver and any path, all calls resolve(path) that return,
\* return the same value, whatever happened to the file between them.
C1_SameResult == \A p \in Paths : Cardinality(returned[p]) <= 1

\* C1 witness: a cache hit returns metadata for a path whose file is gone.
C1_Witness ==
    /\ cur[Caller].outcome = "returned"
    /\ cur[Caller].hit
    /\ cur[Caller].value.some
    /\ cur[Caller].missingAll

\* C2 (as claimed): every outcome of a first resolve(path) leaves a cache
\* entry for the path equal to the value returned, negative outcomes included;
\* every later resolve(path) makes no existence test and no Scanner.read; the
\* scanner reads a path at most once per resolver.
C2_EveryOutcomeCachedNoRequery ==
    /\ \A w \in Workers :
         Done(w) =>
            /\ cur[w].path \in DOMAIN cache
            /\ cur[w].outcome = "returned"
            /\ cache[cur[w].path] = cur[w].value
    /\ \A w \in Workers : cur[w].afterCall => ~cur[w].checked /\ ~cur[w].read
    /\ \A p \in Paths : reads[p] <= 1

\* C2, for the calls that return: a call that returns leaves a cache entry
\* equal to the value returned; a call made after resolve(path) has returned
\* once makes no existence test and no Scanner.read; the scanner reads a path
\* at most once per resolver.
C2_ReturnedOutcomeCachedNoRequery ==
    /\ \A w \in Workers :
         cur[w].outcome = "returned" =>
            /\ cur[w].path \in DOMAIN cache
            /\ cache[cur[w].path] = cur[w].value
    /\ \A w \in Workers : cur[w].afterReturn => ~cur[w].checked /\ ~cur[w].read
    /\ \A p \in Paths : reads[p] <= 1

\* C3 (as claimed): resolve never raises to its caller, whatever the file
\* system or the scanner does, the existence test included.
C3_NeverRaises == \A w \in Workers : cur[w].outcome # "raised"

\* C4 (as claimed): a call of resolve on a path that does not exist returns
\* absent without a parse, after any earlier calls and file-system changes.
C4_MissingIsAbsent ==
    \A w \in Workers :
        Done(w) /\ cur[w].missingAll => cur[w].value = Absent /\ ~cur[w].read

\* C4 (amended): a call of resolve on a path that does not exist attempts no
\* parse; it returns absent when the path has no cache entry, and the cached
\* entry (which may be metadata) when it has one.
C4_MissingIsAbsentUnlessCached ==
    \A w \in Workers :
        Done(w) /\ cur[w].missingAll =>
            /\ ~cur[w].read
            /\ cur[w].outcome = "returned"
            /\ ~cur[w].hit => cur[w].value = Absent
            /\ cur[w].hit => cur[w].value = cache[cur[w].path]

\* C4 witness: an uncached path that does not exist was tested and came back
\* absent.
C4_Witness ==
    /\ Done(Caller)
    /\ cur[Caller].missingAll
    /\ cur[Caller].checked
    /\ ~cur[Caller].hit
    /\ cur[Caller].value = Absent

\* C5 (as claimed): a parse of a header with a page id returns metadata with
\* that page id, synchronized false, the header's space key or "UNKNOWN" when
\* the header has none, the header's title or the file-name stem when the
\* header has none; a header without page id returns absent.
C5_MetadataFromHeader ==
    \A w \in Workers :
        cur[w].read /\ cur[w].outcome = "returned" /\ ~cur[w].doc.raises =>
            LET d == cur[w].doc
                v == cur[w].value
            IN  IF d.page_id.some
                THEN /\ v.some
                     /\ v.page_id = d.page_id.v
                     /\ v.synchronized = FALSE
                     /\ v.space_key = (IF d.space_key.some THEN d.space_key.v ELSE "UNKNOWN")
                     /\ v.title = (IF d.title.some THEN d.title.v ELSE Stem(cur[w].path))
                ELSE v = Absent

\* C5 (amended): as claimed, except that "UNKNOWN" also stands in for an empty
\* space key of the header and the file-name stem for an empty title.
C5_MetadataFromHeaderNonEmpty ==
    \A w \in Workers :
        cur[w].read /\ cur[w].outcome = "returned" /\ ~cur[w].doc.raises =>
            LET d == cur[w].doc
                v == cur[w].value
            IN  IF d.page_id.some
                THEN /\ v.some
                     /\ v.page_id = d.page_id.v
                     /\ v.synchronized = FALSE
                     /\ v.space_key =
                          (IF d.space_key.some /\ d.space_key.v # ""
                           THEN d.space_key.v ELSE "UNKNOWN")
                     /\ v.title =
                          (IF d.title.some /\ d.title.v # ""
                           THEN d.title.v ELSE Stem(cur[w].path))
                ELSE v = Absent

\* C5 witness: a parsed header with a page id, an empty space key and an empty
\* title came back with "UNKNOWN" and the stem.
C5_Witness ==
    /\ cur[Caller].read
    /\ cur[Caller].outcome = "returned"
    /\ cur[Caller].doc.page_id = Some("123456")
    /\ cur[Caller].doc.space_key = Some("")
    /\ cur[Caller].doc.title = Some("")
    /\ cur[Caller].value.space_key = "UNKNOWN"
    /\ cur[Caller].value.title = Stem(cur[Caller].path)

----------------------------------------------------------------------------
(* Claims about front matter *)

\* C9 (as claimed): extract_frontmatter_properties and MermaidScanner.read
\* never raise: a block that fails to parse, or parses to something that is no
\* mapping, gives absent properties.
C9_NeverRaises == fmStage \in {"properties", "read"} => ~fmResult.raises

\* Text t is an opening marker line, enclosed content, the closing marker line
\* starting at j, and a body: the enclosed content begins after the opening
\* `---` and holds no marker line of its own.
ShapedAt(t, j) ==
    /\ MarkerAt(t, 1)
    /\ Len(t) >= 4 /\ t[4] = "\n"
    /\ j >= 5 /\ t[j - 1] = "\n"
    /\ MarkerAt(t, j)
    /\ j + 3 <= Len(t) /\ t[j + 3] = "\n"
    /\ \A i \in 5..(j - 1) :
         ~(t[i - 1] = "\n" /\ SubSeq(t, i, i + 2) = Marker /\ t[i + 3] = "\n")

Enclosed(t, j) == SubSeq(t, 4, j - 1)
Body(t, j) == SubSeq(t, j + 4, Len(t))

\* C10 (as claimed): for an opening marker line, enclosed content, a closing
\* marker line and a body, the raw block is the enclosed content and the
\* remaining text is the body; "---\nkey: value\n---\nbody" gives
\* "\nkey: value\n" and "body".
C10_BlockAndBody ==
    fmStage = "block" =>
        /\ \A j \in 5..Len(fmText) :
             ShapedAt(fmText, j) =>
                /\ fmResult.block = Block(Enclosed(fmText, j))
                /\ fmResult.text = Body(fmText, j)
        /\ fmText = ExampleText =>
             /\ fmResult.block =
                  Block(<<"\n", "k", "e", "y", ":", " ", "v", "a", "l", "u", "e", "\n">>)
             /\ fmResult.text = <<"b", "o", "d", "y">>

\* C10 (amended): the raw block is the enclosed content and the remaining text
\* is the body preceded by the line break that ended the closing marker line;
\* "---\nkey: value\n---\nbody" gives "\nkey: value\n" and "\nbody".
C10_BlockAndLineBreakBody ==
    fmStage = "block" =>
        /\ \A j \in 5..Len(fmText) :
             ShapedAt(fmText, j) =>
                /\ fmResult.block = Block(Enclosed(fmText, j))
                /\ fmResult.text = <<"\n">> \o Body(fmText, j)
        /\ fmText = ExampleText =>
             /\ fmResult.block =
                  Block(<<"\n", "k", "e", "y", ":", " ", "v", "a", "l", "u", "e", "\n">>)
             /\ fmResult.text = <<"\n", "b", "o", "d", "y">>

\* C10 witness: the block was extracted from "---\nkey: value\n---\nbody".
C10_Witness ==
    /\ fmStage = "block"
    /\ fmText = ExampleText
    /\ ShapedAt(fmText, 16)
    /\ fmResult.block.some
    /\ fmResult.text = <<"\n", "b", "o", "d", "y">>

----------------------------------------------------------------------------
(* Claims about render *)

\* C6 (as claimed): once a render call has returned or raised, the temporary
\* file it allocated no longer exists, on every exit path.
C6_TempFileRemoved ==
    \A c \in Renderers : rpc[c] = "done" => ~tmp[rcall[c].filename].exists

\* C7 (as claimed): whenever the converter exits with a nonzero code, render
\* raises an error carrying that code and the captured standard-output and
\* standard-error text, and returns no bytes.
C7_NonzeroExitRaisesWithOutput ==
    \A c \in Renderers :
        rpc[c] = "done" /\ proc[c].state = "exited" /\ proc[c].returncode # 0 =>
            /\ rcall[c].outcome = "raised"
            /\ rcall[c].error.type = "RuntimeError"
            /\ rcall[c].error.code = proc[c].returncode
            /\ proc[c].stdout.valid /\ rcall[c].error.out = proc[c].stdout.text
            /\ proc[c].stderr.valid /\ rcall[c].error.err = proc[c].stderr.text

\* The source of call c has a front-matter block that parses to a mapping
\* whose config is a mapping with a value under scale
ScalePresent(c) ==
    /\ ExtractFrontmatterBlock(rcall[c].source).block.some
    /\ rcall[c].yaml.kind = "dict"
    /\ rcall[c].yaml.config.t = "dict"
    /\ rcall[c].yaml.config.scale # NoneV

\* The command line of call c passes scale as its --scale argument
PassesScale(c, scale) ==
    /\ rcall[c].scale = scale
    /\ Len(rcall[c].cmd) >= 11
    /\ rcall[c].cmd[10] = "--scale"
    /\ rcall[c].cmd[11] = PyStr(scale)

\* C8 (as claimed): the scale passed to the converter is the config.scale
\* value of the front matter whenever there is one, whatever the value, and
\* exactly 2 otherwise.
C8_ScaleIsExtractedOrTwo ==
    \A c \in Renderers :
        rcall[c].cmd # <<>> =>
            IF ScalePresent(c)
            THEN PassesScale(c, rcall[c].yaml.config.scale)
            ELSE PassesScale(c, IntV(2))

\* C8 (amended): the scale passed to the converter is the config.scale value
\* of the front matter whenever there is one that is neither zero, false nor
\* empty, and exactly 2 otherwise.
C8_ScaleIsTruthyExtractedOrTwo ==
    \A c \in Renderers :
        rcall[c].cmd # <<>> =>
            IF ScalePresent(c) /\ rcall[c].yaml.config.scale
                                    \notin {IntV(0), FloatV(0), BoolV(FALSE), StrV("")}
            THEN PassesScale(c, rcall[c].yaml.config.scale)
            ELSE PassesScale(c, IntV(2))

\* C8 witness: front matter with config.scale 1 ran the converter with
\* --scale 1, and a source without front matter with --scale 2.
C8_Witness ==
    /\ rpc[Renderer] = "done"
    /\ proc[Renderer].state = "exited"
    /\ \/ /\ ScalePresent(Renderer)
          /\ rcall[Renderer].yaml.config.scale = IntV(1)
          /\ rcall[Renderer].cmd[11] = "1"
       \/ /\ rcall[Renderer].source = <<"k">>
          /\ rcall[Renderer].cmd[11] = "2"

----------------------------------------------------------------------------
(* Claims about concurrent render calls *)

\* Call c has been given its file and has not yet returned or raised
InFlight(c) == rpc[c] \notin {"idle", "done"}

\* C11: under every interleaving of render calls, the calls in flight hold
\* pairwise distinct temporary file names, the file under a call's name is the
\* one that call created or its converter wrote, and a call reads and removes
\* no file but its own.
C11_IndependentCalls ==
    /\ \A c, d \in Renderers :
          c # d /\ InFlight(c) /\ InFlight(d) => rcall[c].filename # rcall[d].filename
    /\ \A c \in Renderers :
          InFlight(c) /\ tmp[rcall[c].filename].exists => tmp[rcall[c].filename].by = c
    /\ \A c \in Renderers :
          /\ rcall[c].readOf \in {0, c}
          /\ rcall[c].removedOf \in {0, c}

\* C11 witness: two calls of one format are in flight at once under different
\* names; one has read its own file while the other's converter still runs.
C11_Witness ==
    \E d \in Renderers \ {Renderer} :
        /\ rpc[Renderer] = "finally"
        /\ rcall[Renderer].readOf = Renderer
        /\ rpc[d] = "waiting"
        /\ proc[d].state = "running"
        /\ rcall[d].output_format = rcall[Renderer].output_format
        /\ rcall[d].filename # rcall[Renderer].filename
        /\ tmp[rcall[d].filename].exists

----------------------------------------------------------------------------
(* Claims about the steps of a render call *)

\* Call c has done the named operation
Did(c, step) == \E i \in 1..Len(rcall[c].steps) : rcall[c].steps[i] = step

\* C12: render has no timeout and no cancellation. A call that has begun to
\* wait for the converter goes on (returns or raises) only once the converter
\* has exited, so it stays blocked for as long as the converter runs; and once
\* the converter has exited, the call eventually returns or raises.
C12_ReturnsIffConverterExits ==
    /\ [](Did(Renderer, "wait") /\ rpc[Renderer] \in {"finally", "done"}
             => proc[Renderer].state = "exited")
    /\ (proc[Renderer].state = "exited") ~> (rpc[Renderer] = "done")

\* C12 witness: the converter has exited and the call that waited for it has
\* ended.
C12_Witness ==
    /\ Did(Renderer, "wait")
    /\ proc[Renderer].state = "exited"
    /\ rpc[Renderer] = "done"
    /\ rcall[Renderer].outcome \in {"returned", "raised"}

----------------------------------------------------------------------------
(* Claims about the resolver's cache *)

\* C13: a step of resolve(p) keeps every cache entry there is, key and value;
\* when it changes the cache it adds one entry, for p, which had none; and it
\* leaves the file system as it is.
C13_ResolveFrame ==
    [][/\ \A q \in DOMAIN cache : q \in DOMAIN cache' /\ cache'[q] = cache[q]
       /\ DOMAIN cache' # DOMAIN cache =>
             \E w \in Workers :
                /\ pc[w] # "idle"
                /\ cur[w].path \notin DOMAIN cache
                /\ DOMAIN cache' = DOMAIN cache \cup {cur[w].path}
       /\ (pc' # pc \/ calls' # calls) => fs' = fs]_vars

\* C13 witness: a call has added an entry for its path to a cache that held
\* an entry for another path, and both are there.
C13_Witness ==
    /\ Done(Caller)
    /\ ~cur[Caller].hit
    /\ DOMAIN cache = Paths
    /\ calls = Cardinality(Paths)

\* C14, with an external mutex: when the callers serialize resolve() by a
\* lock, the scanner reads a path at most once and all calls on a path that
\* return, return the same value.
C14_SerializedParsesOnce ==
    mutex.used =>
        /\ \A v, w \in Workers : v # w => pc[v] = "idle" \/ pc[w] = "idle"
        /\ \A p \in Paths : reads[p] <= 1 /\ Cardinality(returned[p]) <= 1

\* C14 witness, without a lock: two workers called resolve() on one path,
\* both missed the cache, both tested and parsed the file, which changed in
\* between, so the entry was written twice and they returned different values.
C14_Witness ==
    \E v, w \in Workers :
        /\ v # w
        /\ ~mutex.used
        /\ cur[v].path = cur[w].path
        /\ cur[v].outcome = "returned" /\ cur[w].outcome = "returned"
        /\ ~cur[v].hit /\ ~cur[w].hit
        /\ cur[v].checked /\ cur[w].checked
        /\ cur[v].read /\ cur[w].read
        /\ reads[cur[v].path] = Cardinality(Workers)
        /\ cur[v].value # cur[w].value
        /\ cache[cur[v].path] \in {cur[v].value, cur[w].value}

----------------------------------------------------------------------------
(* Claims about what one render call does *)

\* How many times call c has done the named operation
Count(c, step) ==
    Cardinality({i \in 1..Len(rcall[c].steps) : rcall[c].steps[i] = step})

\* The invocation of call c failed: the process could not be launched, or it
\* exited with a nonzero code
InvocationFailed(c) ==
    \/ Did(c, "launch") /\ proc[c].state = "none"
    \/ proc[c].state = "exited" /\ proc[c].returncode # 0

\* C15 (as claimed): every render call, once it has returned or raised, has
\* launched one process, created one temporary file and deleted one, and a
\* failed invocation was followed by no second launch and raised to the
\* caller.
C15_OneProcessOneFile ==
    \A c \in Renderers :
        rpc[c] = "done" =>
            /\ Count(c, "launch") = 1
            /\ Count(c, "allocate") = 1
            /\ Count(c, "remove") = 1
            /\ rcall[c].removedOf = c
            /\ InvocationFailed(c) => rcall[c].outcome = "raised"

\* C15, for the calls that reach the try block: a call that has launched its
\* process has launched it once, has created one file, and once it has
\* returned or raised has deleted that file; a failed invocation is raised.
C15_OneProcessOneFileOnceLaunched ==
    \A c \in Renderers :
        /\ Count(c, "launch") <= 1
        /\ Count(c, "allocate") <= 1
        /\ Count(c, "remove") <= 1
        /\ rpc[c] = "done" /\ Did(c, "launch") =>
              /\ Count(c, "allocate") = 1
              /\ Count(c, "remove") = 1
              /\ rcall[c].removedOf = c
              /\ InvocationFailed(c) => rcall[c].outcome = "raised"

\* Where in its sequence of operations call c first did the named one
Pos(c, step) == CHOOSE i \in 1..Len(rcall[c].steps) :
                    /\ rcall[c].steps[i] = step
                    /\ \A j \in 1..(i - 1) : rcall[c].steps[j] # step

\* Call c did operation a, and did it before operation b
Before(c, a, b) == Did(c, a) /\ Pos(c, a) < Pos(c, b)

\* C16: the steps of a render call come in a fixed order. The file is
\* allocated before the process is launched; the source is written to standard
\* input and the input closed before the call waits for the exit; the output
\* file is read only after the wait, when the process has exited with code
\* zero, and never after a nonzero exit; the file is removed last, after the
\* read or after the failure was raised.
C16_StepsInOrder ==
    \A c \in Renderers :
        /\ Did(c, "launch") => Before(c, "allocate", "launch")
        /\ Did(c, "wait") =>
              /\ Before(c, "launch", "write")
              /\ Before(c, "write", "close")
              /\ Before(c, "close", "wait")
        /\ Did(c, "read") =>
              /\ Before(c, "wait", "read")
              /\ proc[c].state = "exited"
              /\ proc[c].returncode = 0
        /\ proc[c].state = "exited" /\ proc[c].returncode # 0 => ~Did(c, "read")
        /\ Did(c, "remove") =>
              /\ Before(c, "read", "remove") \/ Before(c, "raise", "remove")
              /\ Pos(c, "remove") = Len(rcall[c].steps)

\* C16 witness: a call has allocated, launched, written, closed, waited, read
\* and removed, in this order.
C16_Witness ==
    /\ rpc[Renderer] = "done"
    /\ rcall[Renderer].steps =
          <<"allocate", "launch", "write", "close", "wait", "read", "remove">>
    /\ proc[Renderer].returncode = 0

----------------------------------------------------------------------------
(* Claims about the command line *)

\* Both container variables have their fixed values
ContainerCase ==
    /\ environ.CHROME_BIN.some /\ environ.CHROME_BIN.v = "/usr/bin/chromium-browser"
    /\ environ.PUPPETEER_SKIP_DOWNLOAD.some /\ environ.PUPPETEER_SKIP_DOWNLOAD.v = "true"

\* The command line of call c carries the -p flag
PassesConfig(c) == \E i \in 1..Len(rcall[c].cmd) : rcall[c].cmd[i] = "-p"

\* C17: the executable of a render call's command line is the fixed
\* installation path in the container case, whatever the host; otherwise
\* mmdc.cmd on a Windows-style host; otherwise mmdc. The command line carries
\* -p and the configuration file exactly in the container case.
C17_ExecutableByEnvironment ==
    \A c \in Renderers :
        rcall[c].cmd # <<>> =>
            /\ ContainerCase => rcall[c].cmd[1] = "/home/md2conf/node_modules/.bin/mmdc"
            /\ ~ContainerCase /\ environ.os_name = "nt" => rcall[c].cmd[1] = "mmdc.cmd"
            /\ ~ContainerCase /\ environ.os_name # "nt" => rcall[c].cmd[1] = "mmdc"
            /\ PassesConfig(c) <=> ContainerCase
            /\ ContainerCase =>
                  SubSeq(rcall[c].cmd, Len(rcall[c].cmd) - 1, Len(rcall[c].cmd))
                     = <<"-p", "md2conf/puppeteer-config.json">>

\* C17 witness: in the container case on a Windows-style host a call has built
\* its command line with the fixed installation path and -p.
C17_Witness ==
    /\ ContainerCase
    /\ environ.os_name = "nt"
    /\ rpc[Renderer] = "done"
    /\ Did(Renderer, "launch")
    /\ rcall[Renderer].cmd[1] = "/home/md2conf/node_modules/.bin/mmdc"
    /\ PassesConfig(Renderer)

----------------------------------------------------------------------------
(* Claims about the cached metadata *)

\* C18 (as claimed): every cache entry that is not absent has synchronized
\* false and a page id that is not empty, whatever the scanner returned, an
\* empty identifier included; and a call that parsed a file returns metadata
\* only if the header carried an identifier that is not empty.
C18_EntriesHaveNonEmptyPageId ==
    /\ \A p \in DOMAIN cache :
          cache[p].some => cache[p].synchronized = FALSE /\ cache[p].page_id # ""
    /\ \A w \in Workers :
          cur[w].read /\ cur[w].outcome = "returned" /\ cur[w].value.some =>
             cur[w].doc.page_id.some /\ cur[w].doc.page_id.v # ""

\* C18, without the empty identifier: every cache entry that is not absent
\* has synchronized false and the page id of a header that carried one.
C18_EntriesHaveHeaderPageId ==
    /\ \A p \in DOMAIN cache :
          cache[p].some =>
             /\ cache[p].synchronized = FALSE
             /\ Some(cache[p].page_id) \in PageIds
    /\ \A w \in Workers :
          cur[w].read /\ cur[w].outcome = "returned" /\ cur[w].value.some =>
             cur[w].doc.page_id.some /\ cur[w].value.page_id = cur[w].doc.page_id.v

----------------------------------------------------------------------------
(* Claims about the scale and the bytes returned *)

\* C19 (as claimed): the scale on a render call's command line is a positive
\* number: a positive int or float of the front matter, or the default 2,
\* whatever config.scale holds.
C19_ScaleIsPositiveNumber ==
    \A c \in Renderers :
        rcall[c].cmd # <<>> =>
            /\ rcall[c].scale.t \in {"int", "float"}
            /\ rcall[c].scale.n > 0
            /\ rcall[c].cmd[11] = PyStr(rcall[c].scale)
            /\ rcall[c].scale = IntV(2) \/ rcall[c].scale = rcall[c].yaml.config.scale

\* C19, as far as it holds: the scale on the command line is the default 2
\* or the config.scale value of the front matter, and is never zero, false,
\* empty or None.
C19_ScaleIsTruthy ==
    \A c \in Renderers :
        rcall[c].cmd # <<>> =>
            /\ PyTruthy(rcall[c].scale)
            /\ rcall[c].cmd[11] = PyStr(rcall[c].scale)
            /\ rcall[c].scale = IntV(2) \/ rcall[c].scale = rcall[c].yaml.config.scale

\* C20: a call whose converter exited with code zero returns the bytes its
\* output file holds when it is read: the empty bytes of the file as it was
\* created when the converter wrote nothing, the converter's output otherwise.
C20_ZeroExitReturnsFileBytes ==
    \A c \in Renderers :
        /\ rpc[c] \in {"finally", "done"}
        /\ proc[c].state = "exited"
        /\ proc[c].returncode = 0
        => /\ rcall[c].outcome = "returned"
           /\ ~proc[c].wrote => rcall[c].value = EmptyBytes
           /\ proc[c].wrote => rcall[c].value = ImageBytes
           /\ rpc[c] = "finally" =>
                 /\ tmp[rcall[c].filename].exists
                 /\ rcall[c].value = tmp[rcall[c].filename].data

\* C20 witness: the converter exited with code zero without writing its
\* output file and the call returned empty bytes.
C20_Witness ==
    /\ rpc[Renderer] = "done"
    /\ proc[Renderer].state = "exited"
    /\ proc[Renderer].returncode = 0
    /\ ~proc[Renderer].wrote
    /\ rcall[Renderer].outcome = "returned"
    /\ rcall[Renderer].value = EmptyBytes

====
